---- MODULE Spec2Model ----
(***************************************************************************)
(* NIP-46 remote-signing backend (NDKNip46Backend) of @nostr-dev-kit/ndk.  *)
(*                                                                         *)
(* The backend subscribes to kind-24133 events addressed to the local      *)
(* user, and runs handleIncomingEvent once per delivered event.  Each run  *)
(* is an async function: it is modelled as a little process whose program  *)
(* counter `pc` names the await it is suspended at.  Every action is one   *)
(* run-to-the-next-await slice of the code.                                *)
(*                                                                         *)
(* JavaScript strings are modelled as sequences of tokens, so that the     *)
(* empty string is <<>>, JSON.parse can fail, and a serialisation is a     *)
(* computed value.                                                         *)
(***************************************************************************)
EXTENDS Integers, Sequences, FiniteSets, TLC

VARIABLES
    startPc,      \* position of start(): "idle", "awaitUser", "started"
    localUser,    \* this.localUser: None until start() has derived it
    sub,          \* the subscription made by start(): "none" or "open"
    handlers,     \* this.handlers: method name -> strategy, or None
    setCalls,     \* number of setStrategy calls made so far
    reqs,         \* one record per call of handleIncomingEvent, in call order
                  \* (its field regAt records the registry entry of its
                  \* method at the moment it was dispatched)
    published,    \* the rpc.sendResponse calls made so far, in order
    gateLog,      \* the permitCallback calls made so far, in order
    setLog,       \* the setStrategy calls made so far, in order
    eose,         \* whether the subscription has seen end-of-stored-events
    nip           \* an event whose content is being encrypted or decrypted

vars ==
    <<startPc, localUser, sub, handlers, setCalls, reqs, published, gateLog,
      setLog, eose, nip>>

\* what the backend's own operations never touch
others == <<eose, nip>>

-----------------------------------------------------------------------------
(* Bounds of the model *)

MaxEvents == 2

MaxSetStrategy == 1

-----------------------------------------------------------------------------
(* Values *)

None == "none"

LocalPubkey == "localpk"

Pubkeys == {"alice", "bob"}

Ids == {"1", "2"}

BuiltinMethods == {"connect", "sign_event", "get_public_key", "describe"}

Methods == BuiltinMethods \cup {"ping"}

\* insertion order of the keys of this.handlers (Object.keys order)
MethodOrder == <<"connect", "sign_event", "get_public_key", "describe", "ping">>

BuiltinStrategies ==
    {"ConnectEventHandlingStrategy", "SignEventHandlingStrategy",
     "GetPublicKeyHandlingStrategy", "DescribeEventHandlingStrategy"}

\* strategies an embedding application registers: one answers "pong",
\* one answers the empty string
CustomStrategies == {"PongStrategy", "EmptyStringStrategy"}

Strategies == BuiltinStrategies \cup CustomStrategies

\* the serialized unsigned events a sign_event request can carry
ValidEventString == <<"{", "kind=1", "content=hi", "}">>

IncompleteEventString == <<"{", "content=hi", "}">>

MalformedEventString == <<"{", "kind=1">>

EventStrings == {ValidEventString, IncompleteEventString, MalformedEventString}

\* the decrypted envelopes a transport message can carry
Envelopes ==
    [id : Ids, method : Methods \ {"sign_event"}, params : {<<>>}]
    \cup [id : Ids, method : {"sign_event"}, params : {<<s>> : s \in EventStrings}]

\* the content of a transport message: an encrypted envelope, or bytes that
\* do not decode
Contents ==
    [cipher : {"nip04"}, envelope : Envelopes]
    \cup {[cipher |-> "garbage", envelope |-> [id |-> "", method |-> "", params |-> <<>>]]}

TransportMessages == [pubkey : Pubkeys, content : Contents]

\* outcome of an awaited call
Undefined == [kind |-> "undefined", v |-> <<>>]

Value(s) == [kind |-> "value", v |-> s]

Throw(e) == [kind |-> "throw", v |-> <<e>>]

-----------------------------------------------------------------------------
(* Pure functions *)

\* rpc.parseEvent: decrypt and parse the envelope, or fail
ParseEvent(event) ==
    IF event.content.cipher = "nip04"
    THEN [ok |-> TRUE, env |-> event.content.envelope]
    ELSE [ok |-> FALSE, env |-> event.content.envelope]

\* `const [ eventString ] = params`: undefined when params is empty, which
\* JSON.parse reads as the text "undefined"
First(params) == IF Len(params) >= 1 THEN params[1] ELSE <<"undefined">>

\* JSON.parse(eventString): the fields of the object, or a SyntaxError
JSONParse(s) ==
    IF Len(s) >= 2 /\ s[1] = "{" /\ s[Len(s)] = "}"
    THEN [ok |-> TRUE, fields |-> SubSeq(s, 2, Len(s) - 1)]
    ELSE [ok |-> FALSE, fields |-> <<>>]

HasField(fields, f) == \E i \in 1..Len(fields) : fields[i] = f

\* event.sign(signer) succeeds only on an event with its required attributes
CanSign(fields) == HasField(fields, "kind=1")

\* the event after event.sign(this.signer)
Sign(fields) == fields \o <<"pubkey=" , LocalPubkey, "sig">>

\* JSON.stringify of the signed event
StringifyEvent(fields) == <<"{">> \o fields \o <<"}">>

RECURSIVE KeysFrom(_, _)
KeysFrom(h, i) ==
    IF i > Len(MethodOrder) THEN <<>>
    ELSE (IF h[MethodOrder[i]] # None THEN <<MethodOrder[i]>> ELSE <<>>)
         \o KeysFrom(h, i + 1)

\* Object.keys(backend.handlers)
Keys(h) == KeysFrom(h, 1)

\* an unknown method falls back to the connect handler
ResolveWithFallback(h, method) ==
    IF h[method] = None THEN h["connect"] ELSE h[method]

\* a name that has a handler keeps it
RegisterIfAbsent(h, method, strategy) ==
    IF h[method] = None THEN [h EXCEPT ![method] = strategy] ELSE h

\* the registry is replaced by one that holds the new entry alone
RegisterAlone(h, method, strategy) ==
    [m \in DOMAIN h |-> IF m = method THEN strategy ELSE None]

\* `this.handlers[method] = strategy`
Register(h, method, strategy) == [h EXCEPT ![method] = strategy]

\* this.handlers[method]
Resolve(h, method) == h[method]

\* `if (response)`: undefined and the empty string are falsy
Truthy(response) == response.kind = "value" /\ response.v # <<>>

\* the check of the gate's answer left out
PermittedUnchecked(answer) == TRUE

\* `if (!await this.pubkeyAllowed(...)) return undefined`
Permitted(answer) == answer = "true"

\* the answer given before to the same sender for the same event is reused
PubkeyAllowedMemoized(r, answer) ==
    IF \E o \in 1..(r - 1) :
          /\ reqs[o].event.pubkey = reqs[r].event.pubkey
          /\ reqs[o].parsed = reqs[r].parsed
          /\ reqs[o].gate \in {"true", "false"}
    THEN LET o == CHOOSE o \in 1..(r - 1) :
                     /\ reqs[o].event.pubkey = reqs[r].event.pubkey
                     /\ reqs[o].parsed = reqs[r].parsed
                     /\ reqs[o].gate \in {"true", "false"}
         IN reqs[o].gate
    ELSE answer

\* pubkeyAllowed returns what permitCallback returns for this very call
PubkeyAllowed(r, answer) == answer

\* the gate is asked about the method only, without the parsed event
GateQueryNoContext(r, remotePubkey, event) ==
    [req |-> r, pubkey |-> remotePubkey, method |-> "sign_event", params |-> <<>>]

\* the arguments signEvent passes to pubkeyAllowed / permitCallback
GateQuery(r, remotePubkey, event) ==
    [req |-> r, pubkey |-> remotePubkey, method |-> "sign_event", params |-> event]

\* the subscription ends with the stored events
AfterEoseClosed(s) == "closed"

\* the subscription after end-of-stored-events: `closeOnEose: false`
AfterEose(s) == s

\* a failed publish is sent once more
AfterPublishRetry(pub, i, outcome) ==
    IF outcome = "failed" /\ Cardinality({j \in 1..Len(pub) : pub[j].req = pub[i].req}) = 1
    THEN Append([pub EXCEPT ![i].sent = outcome], [pub[i] EXCEPT !.sent = "pending"])
    ELSE [pub EXCEPT ![i].sent = outcome]

\* the promise of `this.rpc.sendResponse(...)` settles: nothing awaits it and
\* nothing is attached to it, so only the attempt's own fate is known
AfterPublish(pub, i, outcome) == [pub EXCEPT ![i].sent = outcome]

\* the response goes to the sender of the latest delivered event
SendResponseToLatest(r, id, remotePubkey, response) ==
    [req |-> r, id |-> id, pubkey |-> reqs[Len(reqs)].event.pubkey,
     result |-> response.v, sent |-> "pending"]

\* the arguments handleIncomingEvent passes to rpc.sendResponse
SendResponse(r, id, remotePubkey, response) ==
    [req |-> r, id |-> id, pubkey |-> remotePubkey, result |-> response.v,
     sent |-> "pending"]

\* SignEventHandlingStrategy.handle, given how backend.signEvent settled:
\* the signed event is serialized, undefined stays undefined, a rejection
\* propagates
SignEventStrategyHandle(settled) ==
    IF settled.kind = "value" THEN Value(StringifyEvent(settled.v)) ELSE settled

\* the dispatcher asks the gate before every handler it calls
DispatcherAsksGateAlways(strategy) == TRUE

\* handleIncomingEvent calls strategy.handle at once (lines 84-85): it makes
\* no pubkeyAllowed call of its own for any strategy
DispatcherAsksGate(strategy) == FALSE

\* the calls are queued: one runs only when all earlier ones are done
CanRunQueued(r) ==
    \A o \in 1..(r - 1) : reqs[o].pc \in {"responded", "dropped", "rejected"}

\* `sub.on('event', (e) => this.handleIncomingEvent(e))`: every delivery starts
\* its own call, which is neither awaited nor queued behind earlier calls
CanRun(r) == TRUE

\* strategy.handle for the strategies that never suspend on the gate
HandleSimple(strategy, h) ==
    CASE strategy = "ConnectEventHandlingStrategy" -> Value(<<"ack">>)
      [] strategy = "GetPublicKeyHandlingStrategy" -> Value(<<localUser>>)
      [] strategy = "DescribeEventHandlingStrategy" -> Value(<<"[">> \o Keys(h) \o <<"]">>)
      [] strategy = "PongStrategy" -> Value(<<"pong">>)
      [] strategy = "EmptyStringStrategy" -> Value(<<>>)

-----------------------------------------------------------------------------
(* Initial state: the backend as constructed *)

InitHandlers ==
    [m \in Methods |->
        CASE m = "connect" -> "ConnectEventHandlingStrategy"
          [] m = "sign_event" -> "SignEventHandlingStrategy"
          [] m = "get_public_key" -> "GetPublicKeyHandlingStrategy"
          [] m = "describe" -> "DescribeEventHandlingStrategy"
          [] OTHER -> None]

NewRequest(event) ==
    [event |-> event, pc |-> "parseEvent", id |-> "", method |-> "",
     params |-> <<>>, strategy |-> None, parsed |-> <<>>, gate |-> None,
     gateCalls |-> 0, signCalls |-> 0, ret |-> Undefined, err |-> <<>>,
     regAt |-> None, afterEose |-> eose]

\* an event on which no content operation has been called
NipIdle ==
    [pc |-> "idle", op |-> None, peer |-> None, content |-> <<>>,
     before |-> <<>>, signerArg |-> None, ndk |-> None, ndkSigner |-> None,
     used |-> None, asserted |-> 0, err |-> <<>>, calls |-> 0]

BackendInit ==
    /\ startPc = "idle"
    /\ localUser = None
    /\ sub = "none"
    /\ handlers = InitHandlers
    /\ setCalls = 0
    /\ reqs = <<>>
    /\ published = <<>>
    /\ gateLog = <<>>
    /\ setLog = <<>>
    /\ eose = FALSE

Init == BackendInit /\ nip = NipIdle

-----------------------------------------------------------------------------
(* Actions *)

\* start() up to `await this.signer.user()`
StartCall ==
    /\ startPc = "idle"
    /\ startPc' = "awaitUser"
    /\ UNCHANGED <<localUser, sub, handlers, setCalls, reqs, published, gateLog, setLog, others>>

\* start() after the await: localUser is set and the subscription is opened
StartSubscribe ==
    /\ startPc = "awaitUser"
    /\ startPc' = "started"
    /\ localUser' = LocalPubkey
    /\ sub' = "open"
    /\ UNCHANGED <<handlers, setCalls, reqs, published, gateLog, setLog, others>>

\* setStrategy(method, strategy)
SetStrategy(method, strategy) ==
    /\ setCalls' = setCalls + 1
    /\ handlers' = Register(handlers, method, strategy)
    /\ setLog' = Append(setLog, <<method, strategy>>)
    /\ UNCHANGED <<startPc, localUser, sub, reqs, published, gateLog, others>>

\* the subscription delivers an event: handleIncomingEvent(e) is called and
\* suspends at `await this.rpc.parseEvent(event)`
Deliver(event) ==
    /\ sub = "open"
    /\ Len(reqs) < MaxEvents
    /\ reqs' = Append(reqs, NewRequest(event))
    /\ UNCHANGED <<startPc, localUser, sub, handlers, setCalls, published, gateLog, setLog, others>>

\* signEvent from its call to its first await: JSON.parse, then the gate call
SignEventCall(r, q, env, will) ==
    LET parsed == JSONParse(First(env.params)) IN
    IF ~parsed.ok
    THEN /\ reqs' = [reqs EXCEPT ![r] =
                        [q EXCEPT !.pc = "handle", !.ret = Throw("SyntaxError")]]
         /\ UNCHANGED gateLog
    ELSE /\ reqs' = [reqs EXCEPT ![r] = [q EXCEPT !.pc = "gate",
                                                  !.parsed = parsed.fields,
                                                  !.gate = will,
                                                  !.gateCalls = @ + 1]]
         /\ gateLog' = Append(gateLog, GateQuery(r, q.event.pubkey, parsed.fields))

\* handleIncomingEvent after parseEvent settles: destructure, resolve the
\* strategy, call strategy.handle up to its first await
ParseEventDone(r) ==
    /\ r \in 1..Len(reqs)
    /\ CanRun(r)
    /\ reqs[r].pc = "parseEvent"
    /\ LET parse == ParseEvent(reqs[r].event)
           env == parse.env
       IN IF ~parse.ok
          THEN /\ reqs' = [reqs EXCEPT ![r].pc = "rejected",
                                       ![r].err = <<"DecodeError">>]
               /\ UNCHANGED gateLog
          ELSE LET strategy == Resolve(handlers, env.method)
                   q == [reqs[r] EXCEPT !.id = env.id, !.method = env.method,
                                        !.params = env.params,
                                        !.strategy = strategy,
                                        !.regAt = handlers[env.method]]
               IN IF strategy = None
                  THEN /\ reqs' = [reqs EXCEPT ![r] = [q EXCEPT !.pc = "dropped"]]
                       /\ UNCHANGED gateLog
                  ELSE IF strategy = "SignEventHandlingStrategy"
                  THEN \E will \in {"pending", "never"} : SignEventCall(r, q, env, will)
                  ELSE /\ reqs' = [reqs EXCEPT ![r] =
                                      [q EXCEPT !.pc = "handle",
                                                !.ret = HandleSimple(strategy, handlers)]]
                       /\ gateLog' =
                             IF DispatcherAsksGate(strategy)
                             THEN Append(gateLog,
                                         [req |-> r, pubkey |-> q.event.pubkey,
                                          method |-> env.method, params |-> <<>>])
                             ELSE gateLog
    /\ UNCHANGED <<startPc, localUser, sub, handlers, setCalls, published, setLog, others>>

\* permitCallback's promise settles: signEvent resumes at line 105
GateSettle(r, answer) ==
    /\ r \in 1..Len(reqs)
    /\ CanRun(r)
    /\ reqs[r].pc = "gate"
    /\ reqs[r].gate = "pending"
    /\ IF answer = "throw"
       THEN reqs' = [reqs EXCEPT ![r].gate = answer, ![r].pc = "handle",
                                 ![r].ret = Throw("GateError")]
       ELSE IF Permitted(PubkeyAllowed(r, answer))
       THEN reqs' = [reqs EXCEPT ![r].gate = answer, ![r].pc = "sign",
                                 ![r].signCalls = @ + 1]
       ELSE reqs' = [reqs EXCEPT ![r].gate = answer, ![r].pc = "handle",
                                 ![r].ret = Undefined]
    /\ UNCHANGED <<startPc, localUser, sub, handlers, setCalls, published, gateLog, setLog, others>>

\* event.sign(this.signer) settles: signEvent returns the signed event, or
\* the failure propagates out of signEvent
SignSettle(r) ==
    /\ r \in 1..Len(reqs)
    /\ CanRun(r)
    /\ reqs[r].pc = "sign"
    /\ reqs' = [reqs EXCEPT ![r].pc = "handle",
                            ![r].ret = IF CanSign(reqs[r].parsed)
                                       THEN Value(Sign(reqs[r].parsed))
                                       ELSE Throw("SignError")]
    /\ UNCHANGED <<startPc, localUser, sub, handlers, setCalls, published, gateLog, setLog, others>>

\* the handler is looked up again when its result arrives
HandleResultLateBound(q) ==
    IF handlers[q.method] = "SignEventHandlingStrategy"
    THEN SignEventStrategyHandle(q.ret)
    ELSE q.ret

\* what strategy.handle of request q settles with: q.ret is the outcome of
\* backend.signEvent for the sign-event strategy, and of handle for the others
HandleResult(q) ==
    IF q.strategy = "SignEventHandlingStrategy"
    THEN SignEventStrategyHandle(q.ret)
    ELSE q.ret

\* `await strategy.handle(...)` settles: handleIncomingEvent runs to its end
HandleSettle(r) ==
    /\ r \in 1..Len(reqs)
    /\ CanRun(r)
    /\ reqs[r].pc = "handle"
    /\ LET response == HandleResult(reqs[r]) IN
       IF response.kind = "throw"
       THEN /\ reqs' = [reqs EXCEPT ![r].pc = "rejected", ![r].err = response.v]
            /\ UNCHANGED published
       ELSE IF Truthy(response)
       THEN /\ published' = Append(published,
                   SendResponse(r, reqs[r].id, reqs[r].event.pubkey, response))
            /\ reqs' = [reqs EXCEPT ![r].pc = "responded"]
       ELSE /\ reqs' = [reqs EXCEPT ![r].pc = "dropped"]
            /\ UNCHANGED published
    /\ UNCHANGED <<startPc, localUser, sub, handlers, setCalls, gateLog, setLog, others>>

Next ==
    \/ StartCall
    \/ StartSubscribe
    \/ \E m \in Methods, s \in Strategies :
          setCalls < MaxSetStrategy /\ SetStrategy(m, s)
    \/ \E e \in TransportMessages : Deliver(e)
    \/ \E r \in 1..MaxEvents : ParseEventDone(r)
    \/ \E r \in 1..MaxEvents, a \in {"true", "false", "throw"} : GateSettle(r, a)
    \/ \E r \in 1..MaxEvents : SignSettle(r)
    \/ \E r \in 1..MaxEvents : HandleSettle(r)

Spec == Init /\ [][Next]_vars

-----------------------------------------------------------------------------
(* The same backend with its registry left as constructed and the requests  *)
(* drawn from one sender and one correlation id, under the scheduling       *)
(* JavaScript gives: a settled promise's continuation is eventually run,    *)
(* and a gate call that is going to settle eventually does.                 *)

LiveMessages ==
    {e \in TransportMessages :
        e.pubkey = "alice" /\ e.content.envelope.id \in {"", "1"}}

LiveNext ==
    \/ StartCall
    \/ StartSubscribe
    \/ \E e \in LiveMessages : Deliver(e)
    \/ \E r \in 1..MaxEvents : ParseEventDone(r)
    \/ \E r \in 1..MaxEvents, a \in {"true", "false", "throw"} : GateSettle(r, a)
    \/ \E r \in 1..MaxEvents : SignSettle(r)
    \/ \E r \in 1..MaxEvents : HandleSettle(r)

Fairness ==
    \A r \in 1..MaxEvents :
        /\ WF_vars(ParseEventDone(r))
        /\ WF_vars(\E a \in {"true", "false", "throw"} : GateSettle(r, a))
        /\ WF_vars(SignSettle(r))
        /\ WF_vars(HandleSettle(r))

LiveSpec == Init /\ [][LiveNext]_vars /\ Fairness

-----------------------------------------------------------------------------
(* The backend on its transport: the relay signals end-of-stored-events on  *)
(* the subscription, and the publish behind each sendResponse call succeeds *)
(* or fails some time after handleIncomingEvent has moved on.               *)

\* the subscription receives EOSE
Eose ==
    /\ sub = "open"
    /\ ~eose
    /\ eose' = TRUE
    /\ sub' = AfterEose(sub)
    /\ UNCHANGED <<startPc, localUser, handlers, setCalls, reqs, published, gateLog, setLog, nip>>

\* the publish of response i succeeds or fails
PublishSettle(i, outcome) ==
    /\ i \in 1..Len(published)
    /\ published[i].sent = "pending"
    /\ published' = AfterPublish(published, i, outcome)
    /\ UNCHANGED <<startPc, localUser, sub, handlers, setCalls, reqs, gateLog, setLog, others>>

IoNext ==
    \/ LiveNext
    \/ Eose
    \/ \E i \in 1..MaxEvents, o \in {"ok", "failed"} : PublishSettle(i, o)

IoSpec == Init /\ [][IoNext]_vars

-----------------------------------------------------------------------------
(* The registry alone: sequences of setStrategy calls on the backend as     *)
(* constructed.                                                             *)

MaxRegistrations == 2

RegistryNext ==
    \E m \in Methods, s \in Strategies :
        Len(setLog) < MaxRegistrations /\ SetStrategy(m, s)

RegistrySpec == Init /\ [][RegistryNext]_vars

-----------------------------------------------------------------------------
(* Event content encryption (events/nip04.ts): encrypt and decrypt called   *)
(* on one event, with or without a signer argument, the event with or       *)
(* without an NDK instance, the instance with or without a signer.          *)

MaxNipCalls == 2

NipSigners == {"argSigner", "ndkSigner"}

\* the key a signer shares with a peer
KeyOf(signer, peer) ==
    CASE signer = "argSigner" /\ peer = "alice" -> "key:arg:alice"
      [] signer = "argSigner" /\ peer = "bob" -> "key:arg:bob"
      [] signer = "ndkSigner" /\ peer = "alice" -> "key:ndk:alice"
      [] OTHER -> "key:ndk:bob"

\* signer.encrypt(recipient, content)
NipEncrypt(signer, peer, content) ==
    Value(<<"nip04", KeyOf(signer, peer)>> \o content)

\* signer.decrypt(sender, content): fails on what was not encrypted under
\* the key shared with the sender
NipDecrypt(signer, peer, content) ==
    IF Len(content) >= 2 /\ content[1] = "nip04" /\ content[2] = KeyOf(signer, peer)
    THEN Value(SubSeq(content, 3, Len(content)))
    ELSE Throw("DecryptError")

NipContents == {<<>>, <<"hi">>, <<"nip04", "key:ndk:alice", "hi">>}

NipInit ==
    /\ BackendInit
    /\ nip \in {[NipIdle EXCEPT !.content = c] : c \in NipContents}

\* the event's NDK instance is asked for its signer whatever was passed
NeedsNdkSignerAlways(signer) == TRUE

\* `if (!signer)`
NeedsNdkSigner(signer) == signer = None

\* encrypt / decrypt from the call to its first await
NipCall(op, peer, signer, ndk, ndkSigner) ==
    /\ nip.pc \in {"idle", "done", "failed"}
    /\ nip.calls < MaxNipCalls
    /\ ndk = None => ndkSigner = None
    /\ LET n == [nip EXCEPT !.op = op, !.peer = peer, !.signerArg = signer,
                            !.ndk = ndk, !.ndkSigner = ndkSigner,
                            !.before = nip.content, !.used = None,
                            !.asserted = 0, !.err = <<>>, !.calls = @ + 1]
       IN  nip' = IF NeedsNdkSigner(signer)
                  THEN IF ndk = None
                       THEN [n EXCEPT !.pc = "failed", !.err = <<"No signer available">>]
                       ELSE [n EXCEPT !.pc = "assert", !.asserted = 1]
                  ELSE [n EXCEPT !.pc = "crypt", !.used = signer]
    /\ UNCHANGED <<startPc, localUser, sub, handlers, setCalls, reqs, published, gateLog, setLog, eose>>

\* `await this.ndk.assertSigner()` settles: it rejects when the instance has
\* no signer, else `signer = this.ndk.signer!` and the signer is called
NipAssertSettle ==
    /\ nip.pc = "assert"
    /\ nip' = IF nip.ndkSigner = None
              THEN [nip EXCEPT !.pc = "failed", !.err = <<"Signer required">>]
              ELSE [nip EXCEPT !.pc = "crypt", !.used = nip.ndkSigner]
    /\ UNCHANGED <<startPc, localUser, sub, handlers, setCalls, reqs, published, gateLog, setLog, eose>>

\* `this.content = await signer.encrypt(recipient, this.content)` (decrypt
\* alike): the signer's call settles; the signer itself may fail (ok = FALSE)
NipCryptSettle(ok) ==
    /\ nip.pc = "crypt"
    /\ LET res == IF ~ok THEN Throw("SignerError")
                  ELSE IF nip.op = "encrypt"
                  THEN NipEncrypt(nip.used, nip.peer, nip.content)
                  ELSE NipDecrypt(nip.used, nip.peer, nip.content)
       IN  nip' = IF res.kind = "value"
                  THEN [nip EXCEPT !.pc = "done", !.content = res.v]
                  ELSE [nip EXCEPT !.pc = "failed", !.err = res.v]
    /\ UNCHANGED <<startPc, localUser, sub, handlers, setCalls, reqs, published, gateLog, setLog, eose>>

NipNext ==
    \/ \E op \in {"encrypt", "decrypt"}, peer \in Pubkeys,
          signer \in {None, "argSigner"}, ndk \in {None, "ndk"},
          ndkSigner \in {None, "ndkSigner"} :
            NipCall(op, peer, signer, ndk, ndkSigner)
    \/ NipAssertSettle
    \/ \E ok \in BOOLEAN : NipCryptSettle(ok)

NipSpec == NipInit /\ [][NipNext]_vars

-----------------------------------------------------------------------------
(* Vocabulary of the properties *)

Requests == 1..Len(reqs)

Terminal == {"responded", "dropped", "rejected"}

\* the sendResponse calls made for request r
ResponsesTo(r) == {i \in 1..Len(published) : published[i].req = r}

\* the permitCallback calls made for request r
QueriesOf(r) == {i \in 1..Len(gateLog) : gateLog[i].req = r}

\* request r was decoded and handed to backend.signEvent
ReachedSignEvent(r) ==
    /\ reqs[r].pc # "parseEvent"
    /\ reqs[r].strategy = "SignEventHandlingStrategy"

\* the single parameter of request r parses into event fields
ParamParses(r) == JSONParse(First(reqs[r].params)).ok

-----------------------------------------------------------------------------
(* C1 *)

\* C1: a sign-event request whose Permission Gate call resolved to false never
\* has a response published for it and never has sign invoked for it, whatever
\* the other requests are doing.
C1_DeniedNeverSignedNorAnswered ==
    \A r \in Requests :
        reqs[r].gate = "false" =>
            /\ reqs[r].signCalls = 0
            /\ ResponsesTo(r) = {}
            /\ reqs[r].pc \in {"handle", "dropped"}

\* a denied request has run to its end while another request was allowed and
\* answered
C1_Witness ==
    \E r, o \in Requests :
        /\ r # o
        /\ reqs[r].gate = "false" /\ reqs[r].pc = "dropped"
        /\ reqs[o].gate = "true" /\ reqs[o].pc = "responded"

-----------------------------------------------------------------------------
(* C2 *)

\* C2: while the gate call of a sign-event request has failed or has not
\* resolved, sign is not invoked for the request and no response is published
\* for it; and a gate failure ends the request exactly as a deny does, that
\* is with signEvent returning undefined and the request dropped, no error
\* leaving signEvent or handleIncomingEvent.
C2_GateFailureEndsAsDeny ==
    \A r \in Requests :
        /\ reqs[r].gate \in {"pending", "never", "throw"} =>
              reqs[r].signCalls = 0 /\ ResponsesTo(r) = {}
        /\ reqs[r].gate = "throw" =>
              /\ reqs[r].ret = Undefined
              /\ reqs[r].pc \in {"handle", "dropped"}
              /\ reqs[r].err = <<>>

\* the half of C2 the code keeps: no sign and no response while the gate's
\* outcome is indeterminate
C2_IndeterminateNeverSigns ==
    \A r \in Requests :
        reqs[r].gate \in {"pending", "never", "throw"} =>
            reqs[r].signCalls = 0 /\ ResponsesTo(r) = {}

-----------------------------------------------------------------------------
(* C3 *)

\* C3: for a sign-event request the steps come in the order parse, gate query
\* (method sign_event, the parsed event as context, the sender as identity),
\* gate resolves true, one sign call on the parsed event, response carrying
\* the signed event: the gate is queried only after a successful parse, sign
\* is invoked at most once and only once the request's own gate call has
\* resolved true, a response exists only after that sign call and carries the
\* serialized signed event, and an allowed request with a signable event that
\* has run to its end was answered exactly once.
C3_SignEventStepsInOrder ==
    \A r \in Requests :
        ReachedSignEvent(r) =>
            /\ QueriesOf(r) # {} =>
                  /\ ParamParses(r)
                  /\ reqs[r].parsed = JSONParse(First(reqs[r].params)).fields
                  /\ \A i \in QueriesOf(r) :
                        /\ gateLog[i].method = "sign_event"
                        /\ gateLog[i].params = reqs[r].parsed
                        /\ gateLog[i].pubkey = reqs[r].event.pubkey
            /\ reqs[r].signCalls <= 1
            /\ reqs[r].signCalls = 1 => reqs[r].gate = "true" /\ QueriesOf(r) # {}
            /\ reqs[r].pc = "sign" => reqs[r].signCalls = 1
            /\ ResponsesTo(r) # {} =>
                  /\ reqs[r].signCalls = 1
                  /\ reqs[r].pc = "responded"
                  /\ \A i \in ResponsesTo(r) :
                        published[i].result = StringifyEvent(Sign(reqs[r].parsed))
            /\ (reqs[r].pc \in Terminal /\ reqs[r].gate = "true"
                    /\ CanSign(reqs[r].parsed)) =>
                  Cardinality(ResponsesTo(r)) = 1

\* an allowed request for a valid unsigned event was signed once and answered
C3_Witness ==
    \E r \in Requests :
        /\ ReachedSignEvent(r)
        /\ First(reqs[r].params) = ValidEventString
        /\ reqs[r].gate = "true"
        /\ reqs[r].signCalls = 1
        /\ reqs[r].pc = "responded"
        /\ ResponsesTo(r) # {}

-----------------------------------------------------------------------------
(* C4 *)

\* C4: whenever the handler registered for a decoded request's method has
\* returned, a present result (any result string) has a published response
\* carrying the request's id and that result once handleIncomingEvent is
\* done, and an absent result has none.
C4_PresentResultIsPublished ==
    \A r \in Requests :
        (reqs[r].pc \in Terminal /\ reqs[r].strategy # None
                /\ HandleResult(reqs[r]).kind # "throw") =>
            IF HandleResult(reqs[r]).kind = "value"
            THEN \E i \in ResponsesTo(r) :
                    /\ published[i].id = reqs[r].id
                    /\ published[i].result = HandleResult(reqs[r]).v
            ELSE ResponsesTo(r) = {}

-----------------------------------------------------------------------------
(* C5 *)

-----------------------------------------------------------------------------
(* C6 *)

\* C6: a transport message that fails to decode is logged and dropped: no
\* response, no handler, and no error escaping handleIncomingEvent.
C6_DecodeFailureDropped ==
    \A r \in Requests :
        (reqs[r].pc # "parseEvent" /\ ~ParseEvent(reqs[r].event).ok) =>
            /\ reqs[r].pc = "dropped"
            /\ reqs[r].err = <<>>
            /\ reqs[r].strategy = None
            /\ ResponsesTo(r) = {}

-----------------------------------------------------------------------------
(* C7 *)

\* C7: a sign-event request whose parameter does not parse has the absent
\* outcome: no gate query, no sign call, no response, and no error out of
\* signEvent or out of handleIncomingEvent.
C7_ParseFailureIsAbsent ==
    \A r \in Requests :
        (ReachedSignEvent(r) /\ ~ParamParses(r)) =>
            /\ QueriesOf(r) = {} /\ reqs[r].gateCalls = 0
            /\ reqs[r].signCalls = 0
            /\ ResponsesTo(r) = {}
            /\ reqs[r].ret = Undefined
            /\ reqs[r].pc \in {"handle", "dropped"}
            /\ reqs[r].err = <<>>

-----------------------------------------------------------------------------
(* C8 *)

\* C8: when sign fails for an allowed request, the request ends as a drop:
\* no response, and no error out of handleIncomingEvent.
C8_SignFailureIsDrop ==
    \A r \in Requests :
        (reqs[r].signCalls = 1 /\ ~CanSign(reqs[r].parsed)
                /\ reqs[r].pc \in Terminal) =>
            /\ reqs[r].pc = "dropped"
            /\ reqs[r].err = <<>>
            /\ ResponsesTo(r) = {}

-----------------------------------------------------------------------------
(* C9 *)

-----------------------------------------------------------------------------
(* C10 *)

\* C10: every sign-event request whose payload parses has queried the gate
\* exactly once, and what happens to it follows the answer to its own query:
\* sign is invoked if and only if that answer was true, also when an
\* identical request of the same sender was answered differently before.
C10_EveryRequestAsksTheGate ==
    \A r \in Requests :
        (ReachedSignEvent(r) /\ ParamParses(r)) =>
            /\ reqs[r].gateCalls = 1
            /\ Cardinality(QueriesOf(r)) = 1
            /\ reqs[r].gate = "true" => reqs[r].signCalls = 1
            /\ reqs[r].gate # "true" => reqs[r].signCalls = 0
            /\ reqs[r].gate = "false" => reqs[r].pc \in {"handle", "dropped"}

\* two identical requests of one sender, the first allowed and signed, the
\* second denied
C10_Witness ==
    \E r, o \in Requests :
        /\ r < o
        /\ reqs[r].event = reqs[o].event
        /\ ReachedSignEvent(r) /\ ReachedSignEvent(o)
        /\ reqs[r].gate = "true" /\ reqs[r].signCalls = 1
        /\ reqs[o].gate = "false" /\ reqs[o].pc = "dropped"
        /\ reqs[o].gateCalls = 1

-----------------------------------------------------------------------------
(* C11 *)

UngatedStrategies ==
    {"ConnectEventHandlingStrategy", "GetPublicKeyHandlingStrategy",
     "DescribeEventHandlingStrategy"}

-----------------------------------------------------------------------------
(* C12 *)

\* C12: every published response is addressed to the sender of the transport
\* message of the request it was made for, carries the id of that request's
\* envelope and the result of that request's own handler call, whatever the
\* other requests are, also when another sender uses the same id.
C12_ResponseGoesToItsRequester ==
    \A i \in 1..Len(published) :
        LET p == published[i] IN
        /\ p.req \in Requests
        /\ p.pubkey = reqs[p.req].event.pubkey
        /\ p.id = reqs[p.req].event.content.envelope.id
        /\ p.result = HandleResult(reqs[p.req]).v

\* two senders used the same id at the same time with different methods, and
\* both were answered, the later request first
C12_Witness ==
    /\ Len(reqs) = 2 /\ Len(published) = 2
    /\ reqs[1].event.pubkey # reqs[2].event.pubkey
    /\ reqs[1].id = reqs[2].id
    /\ reqs[1].method = "connect" /\ reqs[2].method = "get_public_key"
    /\ published[1].req = 2 /\ published[2].req = 1

-----------------------------------------------------------------------------
(* C13 *)

\* the strategy of the last setStrategy call in log that names method m, and
\* the built-in one when no call names it
LastRegistration(log, m) ==
    LET calls == {i \in 1..Len(log) : log[i][1] = m} IN
    IF calls = {} THEN InitHandlers[m]
    ELSE log[CHOOSE i \in calls : \A j \in calls : j <= i][2]

\* C13: after any sequence of setStrategy calls the handler resolved for a
\* method is the one given by the last call for that name, and the built-in
\* one (none for a name that has no built-in) if there was no call; every
\* call succeeds, also on a name that already has a handler.
C13_LastRegistrationWins ==
    /\ \A m \in Methods : Resolve(handlers, m) = LastRegistration(setLog, m)
    /\ Len(setLog) = setCalls

\* a built-in name was registered twice with different handlers
C13_Witness ==
    /\ Len(setLog) = 2
    /\ setLog[1][1] = "connect" /\ setLog[2][1] = "connect"
    /\ setLog[1][2] = "PongStrategy" /\ setLog[2][2] = "EmptyStringStrategy"
    /\ Resolve(handlers, "connect") = "EmptyStringStrategy"

-----------------------------------------------------------------------------
(* C14 *)

\* the sendResponse call of request r without the request it belongs to
ResponseContent(r) ==
    {[id |-> published[i].id, pubkey |-> published[i].pubkey,
      result |-> published[i].result] : i \in ResponsesTo(r)}

\* r and o are two deliveries of one transport message
Duplicates(r, o) == r < o /\ reqs[r].event = reqs[o].event

\* C14: when one transport message was delivered twice, neither call of
\* handleIncomingEvent ends as a failure that leaves the dispatcher, each
\* makes at most one response, and once both have run to their end with the
\* same handler resolved, the same gate answer and the same handler outcome,
\* they ended the same way and their responses are equal.
C14_DuplicateDeliveryTolerated ==
    \A r, o \in Requests :
        Duplicates(r, o) =>
            /\ reqs[r].pc # "rejected" /\ reqs[o].pc # "rejected"
            /\ Cardinality(ResponsesTo(r)) <= 1
            /\ Cardinality(ResponsesTo(o)) <= 1
            /\ (/\ reqs[r].pc \in Terminal /\ reqs[o].pc \in Terminal
                /\ reqs[r].strategy = reqs[o].strategy
                /\ reqs[r].gate = reqs[o].gate
                /\ reqs[r].ret = reqs[o].ret) =>
                   /\ reqs[r].pc = reqs[o].pc
                   /\ ResponseContent(r) = ResponseContent(o)

\* what does hold of two deliveries of one message: with the same handler,
\* gate answer and handler outcome the two calls end the same way, failures
\* included, with equal responses, and no step of handling a request changes
\* the registry, the local identity or the subscription
C14_DuplicatesAgreeAndKeepState ==
    /\ [](\A r, o \in Requests :
            (/\ Duplicates(r, o)
             /\ reqs[r].pc \in Terminal /\ reqs[o].pc \in Terminal
             /\ reqs[r].strategy = reqs[o].strategy
             /\ reqs[r].gate = reqs[o].gate
             /\ reqs[r].ret = reqs[o].ret) =>
                /\ reqs[r].pc = reqs[o].pc
                /\ reqs[r].err = reqs[o].err
                /\ Cardinality(ResponsesTo(r)) <= 1
                /\ Cardinality(ResponsesTo(o)) <= 1
                /\ ResponseContent(r) = ResponseContent(o))
    /\ [][(setCalls' = setCalls /\ startPc' = startPc) =>
              (handlers' = handlers /\ localUser' = localUser /\ sub' = sub)]_vars

\* one connect message was delivered twice, the two calls overlapped (the
\* second was answered first) and both were answered alike
C14_AnsweredAlike ==
    /\ Len(reqs) = 2 /\ Len(published) = 2
    /\ reqs[1].event = reqs[2].event
    /\ reqs[1].method = "connect"
    /\ published[1].req = 2 /\ published[2].req = 1
    /\ published[1].result = published[2].result

-----------------------------------------------------------------------------
(* C15 *)

\* what the strategy resolved for request r answers, once its call settled
\* with a value
ResolvedAnswer(r) ==
    IF reqs[r].strategy = "SignEventHandlingStrategy"
    THEN StringifyEvent(reqs[r].ret.v)
    ELSE reqs[r].ret.v

\* C15: under every interleaving of setStrategy calls with requests, a
\* dispatched request is handled by the handler that was registered for its
\* method at the moment of dispatch, keeps that handler until it ends, is
\* handled once (at most one gate query, sign call and response), and ends as
\* that handler's own outcome says, whatever is registered by then; and a
\* setStrategy call changes no request.
C15_RegistryInterleavesWithDispatch ==
    /\ [](\A r \in Requests :
            (reqs[r].pc # "parseEvent" /\ ParseEvent(reqs[r].event).ok) =>
                /\ reqs[r].strategy = reqs[r].regAt
                /\ reqs[r].gateCalls <= 1 /\ Cardinality(QueriesOf(r)) <= 1
                /\ reqs[r].signCalls <= 1
                /\ Cardinality(ResponsesTo(r)) <= 1
                /\ (reqs[r].pc \in Terminal /\ reqs[r].strategy # None) =>
                      /\ reqs[r].pc = "responded" <=>
                            (reqs[r].ret.kind = "value" /\ ResolvedAnswer(r) # <<>>)
                      /\ \A i \in ResponsesTo(r) :
                            published[i].result = ResolvedAnswer(r))
    /\ [][/\ \A r \in Requests :
                reqs[r].pc # "parseEvent" =>
                    /\ reqs'[r].strategy = reqs[r].strategy
                    /\ reqs'[r].regAt = reqs[r].regAt
          /\ setCalls' # setCalls =>
                (reqs' = reqs /\ published' = published /\ gateLog' = gateLog)]_vars

\* the sign-event handler was replaced while a request it is handling is
\* still in flight, past the gate and waiting for the signature
C15_Witness ==
    \E r \in Requests :
        /\ reqs[r].method = "sign_event"
        /\ reqs[r].strategy = "SignEventHandlingStrategy"
        /\ reqs[r].pc = "sign"
        /\ handlers["sign_event"] = "PongStrategy"

-----------------------------------------------------------------------------
(* C18 *)

\* C18: a step that is not a setStrategy call leaves the registry unchanged;
\* a setStrategy call sets the entry of the method it names to the strategy it
\* was given and leaves every other entry unchanged; no step removes an
\* entry; and the four built-in names have a handler in every state.
C18_RegistryChangedOnlyBySetStrategy ==
    /\ [][/\ setCalls' = setCalls => handlers' = handlers
          /\ setCalls' # setCalls =>
                LET call == setLog'[Len(setLog')] IN
                /\ handlers'[call[1]] = call[2]
                /\ \A k \in Methods \ {call[1]} : handlers'[k] = handlers[k]
          /\ \A m \in Methods : handlers[m] # None => handlers'[m] # None]_vars
    /\ [](\A m \in BuiltinMethods : handlers[m] # None)

\* ping was registered, and a request has been handled to its end by the
\* sign-event handler
C18_Witness ==
    /\ handlers["ping"] # None
    /\ \E r \in Requests :
          /\ reqs[r].strategy = "SignEventHandlingStrategy"
          /\ reqs[r].signCalls = 1
          /\ reqs[r].pc = "responded"

-----------------------------------------------------------------------------
(* C16 *)

\* C16: every request has at most one publish attempt; every attempt belongs
\* to a delivered request whose handling ended with a response; an attempt
\* that failed stays as it is and no attempt is added for it; and the step in
\* which an attempt succeeds or fails changes no request, no other attempt's
\* existence, no gate query and no registry entry.
C16_PublishOneWayUnretried ==
    /\ [](\A r \in Requests : Cardinality(ResponsesTo(r)) <= 1)
    /\ [](\A i \in 1..Len(published) :
            /\ published[i].req \in Requests
            /\ reqs[published[i].req].pc = "responded")
    /\ [][\A i \in 1..Len(published) :
            published[i].sent = "failed" =>
                /\ published'[i] = published[i]
                /\ \A j \in 1..Len(published') :
                      published'[j].req = published[i].req => j = i]_vars
    /\ [][(\E i \in 1..Len(published) : published'[i].sent # published[i].sent) =>
              /\ reqs' = reqs
              /\ Len(published') = Len(published)
              /\ gateLog' = gateLog
              /\ handlers' = handlers]_vars

\* one response failed to publish, its request stays answered, and the
\* response to another request was published
C16_Witness ==
    /\ Len(published) = 2
    /\ published[1].sent = "failed"
    /\ published[2].sent = "ok"
    /\ published[1].req # published[2].req
    /\ \A r \in Requests : reqs[r].pc = "responded"

-----------------------------------------------------------------------------
(* C17 *)

\* C17: once start() has completed the local identity is derived and the
\* subscription is open; no step closes an open subscription, EOSE and the
\* handling of a message included; a request exists only after the identity
\* was derived; and each delivery starts one handleIncomingEvent call on the
\* delivered message.
C17_SubscriptionStaysOpen ==
    /\ [](startPc = "started" => (sub = "open" /\ localUser = LocalPubkey))
    /\ [](sub = "open" => startPc = "started")
    /\ [](reqs # <<>> => (localUser = LocalPubkey /\ startPc = "started"))
    /\ [][sub = "open" => sub' = "open"]_vars
    /\ [][Len(reqs') # Len(reqs) =>
              /\ sub = "open"
              /\ Len(reqs') = Len(reqs) + 1
              /\ reqs'[Len(reqs')].pc = "parseEvent"
              /\ \A r \in Requests : reqs'[r].event = reqs[r].event]_vars

\* after EOSE and after a first message was answered, a further message was
\* delivered and answered, and the subscription is still open
C17_Witness ==
    /\ eose /\ sub = "open"
    /\ Len(reqs) = 2
    /\ ~reqs[1].afterEose /\ reqs[1].pc = "responded"
    /\ reqs[2].afterEose /\ reqs[2].pc = "responded"
    /\ published[1].req = 1

-----------------------------------------------------------------------------
(* C19 *)

\* what the signer in use makes of the content the operation was called on
NipResult ==
    IF nip.op = "encrypt"
    THEN NipEncrypt(nip.used, nip.peer, nip.before)
    ELSE NipDecrypt(nip.used, nip.peer, nip.before)

\* C19: of an encrypt or decrypt call: with a signer argument that signer is
\* the one used and the NDK instance's signer is neither asserted nor used;
\* without an argument and without an NDK instance the call has failed with
\* 'No signer available' and no signer was asserted or used; without an
\* argument and with an NDK instance the instance's signer was asserted
\* before any signer is used and the one used is the instance's; the content
\* is the one the call found until the signer's operation has succeeded, and
\* then it is that operation's result.
C19_SignerOrderAndNoSideEffects ==
    nip.pc # "idle" =>
        /\ nip.signerArg # None =>
              /\ nip.asserted = 0
              /\ nip.used = nip.signerArg
              /\ nip.pc \in {"crypt", "done", "failed"}
        /\ (nip.signerArg = None /\ nip.ndk = None) =>
              /\ nip.pc = "failed"
              /\ nip.err = <<"No signer available">>
              /\ nip.asserted = 0 /\ nip.used = None
        /\ (nip.signerArg = None /\ nip.ndk # None) =>
              /\ nip.asserted = 1
              /\ nip.pc = "assert" => nip.used = None
              /\ nip.used # None => nip.used = nip.ndkSigner
              /\ nip.pc \in {"crypt", "done"} => nip.used = nip.ndkSigner
        /\ nip.pc \in {"assert", "crypt", "failed"} => nip.content = nip.before
        /\ nip.pc = "done" =>
              /\ nip.used # None
              /\ NipResult.kind = "value"
              /\ nip.content = NipResult.v

\* a second call, without a signer argument, has decrypted with the NDK
\* instance's signer what the first call encrypted
C19_Witness ==
    /\ nip.calls = 2 /\ nip.pc = "done" /\ nip.op = "decrypt"
    /\ nip.signerArg = None /\ nip.used = "ndkSigner" /\ nip.asserted = 1
    /\ nip.before = <<"nip04", "key:ndk:bob", "hi">>
    /\ nip.content = <<"hi">>

====
